---- MODULE Spec2Model ----
(***************************************************************************)
(* Model of server.py: the quote store (tables quotes and quote_items of   *)
(* data.db), the POST /api/quotes handler in its flat and grouped forms,   *)
(* insert_quote's transaction, and the two read endpoints.                 *)
(*                                                                         *)
(* JSON values are records [t, s, n]: t is the JSON type, s the characters *)
(* of a string (a sequence of one-character strings), n the integer of a   *)
(* number.  Python floats are records [k, x]: k is "fin" (the number x),   *)
(* "inf" or "nan", or the name of the exception float() raised.            *)
(***************************************************************************)
EXTENDS Integers, Sequences, FiniteSets, TLC

VARIABLES
    quotes,       \* committed rows of table quotes, in id order
    quote_items,  \* committed rows of table quote_items, in id order
    lock,         \* the connection holding SQLite's write lock, or NoWorker
    pc,           \* per handler: where it is in do_GET / do_POST / insert_quote
    req,          \* per handler: the request body it is serving
    data,         \* per handler: the dict do_POST hands to insert_quote
    txn,          \* per handler: the uncommitted writes of its connection
    result,       \* per handler: what the client gets
    options       \* per handler: list_options' columns read so far

vars == <<quotes, quote_items, lock, pc, req, data, txn, result, options>>

\* ------------------------------------------------------------ JSON values

Null == [t |-> "null", s |-> <<>>, n |-> 0]
ListV == [t |-> "list", s |-> <<>>, n |-> 0]
NaNV == [t |-> "nan", s |-> <<>>, n |-> 0]
BigV == [t |-> "big", s |-> <<>>, n |-> 0]
TrueV == [t |-> "bool", s |-> <<>>, n |-> 1]
Num(n) == [t |-> "num", s |-> <<>>, n |-> n]
Str(s) == [t |-> "str", s |-> s, n |-> 0]

\* ------------------------------------------------------------ str.strip, float

Whitespace == {" "}

RECURSIVE lstrip(_)
lstrip(s) == IF s # <<>> /\ Head(s) \in Whitespace THEN lstrip(Tail(s)) ELSE s

RECURSIVE rstrip(_)
rstrip(s) ==
    IF s # <<>> /\ s[Len(s)] \in Whitespace
    THEN rstrip(SubSeq(s, 1, Len(s) - 1))
    ELSE s

strip(s) == rstrip(lstrip(s))

Digits == <<"0", "1", "2", "3", "4", "5", "6", "7", "8", "9">>

DigitVal(c) == (CHOOSE i \in 1..Len(Digits) : Digits[i] = c) - 1

IsDigits(s) ==
    /\ s # <<>>
    /\ \A i \in 1..Len(s) : \E j \in 1..Len(Digits) : Digits[j] = s[i]

RECURSIVE DecVal(_)
DecVal(s) ==
    IF s = <<>> THEN 0
    ELSE 10 * DecVal(SubSeq(s, 1, Len(s) - 1)) + DigitVal(s[Len(s)])

Fin(x) == [k |-> "fin", x |-> x]
NaN == [k |-> "nan", x |-> 0]
Raised(e) == [k |-> e, x |-> 0]

\* float(str): surrounding whitespace is ignored; an optional sign and decimal
\* digits, or "nan" (fractions, exponents and "inf" are not in the inputs used).
float_str(s) ==
    LET t == strip(s) IN
    IF t = <<"n", "a", "n">> THEN NaN
    ELSE IF IsDigits(t) THEN Fin(DecVal(t))
    ELSE IF Len(t) > 1 /\ t[1] = "-" /\ IsDigits(Tail(t)) THEN Fin(0 - DecVal(Tail(t)))
    ELSE Raised("ValueError")

float(v) ==
    CASE v.t = "num" -> Fin(v.n)
      [] v.t = "bool" -> Fin(v.n)
      [] v.t = "nan" -> NaN
      [] v.t = "big" -> Raised("OverflowError")
      [] v.t = "str" -> float_str(v.s)
      [] OTHER -> Raised("TypeError")

\* The test of the sign left out.
LtZeroNever(f) == FALSE

\* price_value < 0 on a Python float: every comparison with nan is False.
LtZero(f) == f.k = "fin" /\ f.x < 0

\* ------------------------------------------------------------ do_POST

required_fields ==
    <<"engine_category", "engine_model", "radiator_type", "generator_category",
      "generator_power", "control_system", "base_type", "unit_color">>

price_fields ==
    <<"price_engine_combo", "price_generator_combo", "price_radiator",
      "price_control", "price_base", "price_color">>

Range(seq) == {seq[i] : i \in 1..Len(seq)}

Columns == Range(required_fields) \cup Range(price_fields)

\* The groups of the grouped form in the order do_POST parses them, with the
\* keys parse_items reads and the quotes columns the first item fills.
Groups ==
    <<[key |-> "engine_items", section |-> "engine", extra_key |-> TRUE,
       name_col |-> "engine_category", extra_col |-> "engine_model",
       price_col |-> "price_engine_combo"],
      [key |-> "generator_items", section |-> "generator", extra_key |-> TRUE,
       name_col |-> "generator_category", extra_col |-> "generator_power",
       price_col |-> "price_generator_combo"],
      [key |-> "radiator_items", section |-> "radiator", extra_key |-> FALSE,
       name_col |-> "radiator_type", extra_col |-> "",
       price_col |-> "price_radiator"],
      [key |-> "control_items", section |-> "control", extra_key |-> FALSE,
       name_col |-> "control_system", extra_col |-> "",
       price_col |-> "price_control"],
      [key |-> "base_items", section |-> "base", extra_key |-> FALSE,
       name_col |-> "base_type", extra_col |-> "",
       price_col |-> "price_base"],
      [key |-> "color_items", section |-> "color", extra_key |-> FALSE,
       name_col |-> "unit_color", extra_col |-> "",
       price_col |-> "price_color"]>>

GroupKeys == {Groups[i].key : i \in 1..Len(Groups)}

\* What a handler leaves the client with. status 0: an exception left do_POST
\* and no response was written; exc names it.
Reply(status, error) == [status |-> status, error |-> error, exc |-> "", items |-> <<>>]
Uncaught(e) == [status |-> 0, error |-> <<>>, exc |-> e, items |-> <<>>]
NoResult == Reply(0, <<>>)
Invalid(field) == Reply(400, <<"invalid", field>>)
Created == Reply(201, <<>>)

NoData == [row |-> <<>>, items |-> <<>>]

\* do_POST's outcome before insert_quote: a response, an exception, or the
\* dict to insert.
Stop(r) == [next |-> "done", result |-> r, data |-> NoData]
Insert(d) == [next |-> "insert", result |-> NoResult, data |-> d]

\* Where a loop that returns at the first failure stops: the first position
\* of the sequence of flags that is TRUE, 0 when there is none.
FirstTrue(bad) ==
    IF \E i \in 1..Len(bad) : bad[i]
    THEN CHOOSE i \in 1..Len(bad) : bad[i] /\ \A j \in 1..(i - 1) : ~bad[j]
    ELSE 0

\* The test without its strip(): not isinstance(value, str) or not value.
TextRejectedNoStrip(value) == value.t # "str" \/ value.s = <<>>

\* not isinstance(value, str) or not value.strip()
TextRejected(value) == value.t # "str" \/ strip(value.s) = <<>>

\* float(value) and the test price_value < 0: "ok", "invalid", or "raise"
\* for the exception the except clause does not name.
PriceCheck(value) ==
    LET f == float(value) IN
    IF f.k \in {"TypeError", "ValueError"} THEN "invalid"
    ELSE IF f.k \in {"fin", "nan"} THEN (IF LtZero(f) THEN "invalid" ELSE "ok")
    ELSE "raise"

\* The flat form: the two loops over required_fields and price_fields.
flat_form(payload) ==
    LET bt == FirstTrue([i \in 1..Len(required_fields) |-> TextRejected(payload[required_fields[i]])])
        bp == FirstTrue([i \in 1..Len(price_fields) |-> PriceCheck(payload[price_fields[i]]) # "ok"])
    IN  IF bt # 0 THEN Stop(Invalid(required_fields[bt]))
        ELSE IF bp # 0 THEN
            IF PriceCheck(payload[price_fields[bp]]) = "raise"
            THEN Stop(Uncaught(float(payload[price_fields[bp]]).k))
            ELSE Stop(Invalid(price_fields[bp]))
        ELSE Insert([row |-> [c \in Columns |->
                                 IF c \in Range(price_fields)
                                 THEN float(payload[c])
                                 ELSE strip(payload[c].s)],
                     items |-> <<>>])

\* A text that may be None (the extra of an item).
Text(s) == [null |-> FALSE, s |-> s]
None == [null |-> TRUE, s |-> <<>>]

\* One pass of parse_items' loop body over item: "ok", "invalid_items", or
\* the name of the exception float() raises uncaught.
item_check(item, extra_key) ==
    IF item.t # "dict" THEN "invalid_items"
    ELSE IF TextRejected(item.name) THEN "invalid_items"
    ELSE IF extra_key /\ TextRejected(item.extra) THEN "invalid_items"
    ELSE IF PriceCheck(item.price) = "invalid" THEN "invalid_items"
    ELSE IF PriceCheck(item.price) = "raise" THEN float(item.price).k
    ELSE "ok"

parsed_item(item, extra_key) ==
    [name |-> strip(item.name.s),
     extra |-> IF extra_key THEN Text(strip(item.extra.s)) ELSE None,
     price |-> float(item.price)]

parse_items(items, extra_key) ==
    IF items.t # "list" \/ items.items = <<>>
    THEN [parsed |-> <<>>, err |-> "invalid_items"]
    ELSE LET bad == FirstTrue([i \in 1..Len(items.items) |-> item_check(items.items[i], extra_key) # "ok"])
         IN  IF bad # 0
             THEN [parsed |-> <<>>, err |-> item_check(items.items[bad], extra_key)]
             ELSE [parsed |-> [i \in 1..Len(items.items) |->
                                  parsed_item(items.items[i], extra_key)],
                   err |-> "ok"]

\* The item rows of one section, as do_POST appends them to items.
section_items(group, parsed) ==
    [i \in 1..Len(parsed) |->
        [section |-> group.section,
         name |-> parsed[i].name,
         extra |-> IF group.extra_key THEN parsed[i].extra ELSE None,
         price |-> parsed[i].price]]

RECURSIVE all_items(_, _)
all_items(payload, n) ==
    IF n = 0 THEN <<>>
    ELSE all_items(payload, n - 1) \o
         section_items(Groups[n], parse_items(payload[Groups[n].key], Groups[n].extra_key).parsed)

\* The last item taken for the first.
summary_itemLast(parsed) == parsed[Len(parsed)]

\* The item of a parsed group that fills the summary row of quotes.
summary_item(parsed) == parsed[1]

summary_row(payload) ==
    [c \in Columns |->
        LET n == CHOOSE i \in 1..Len(Groups) : c \in {Groups[i].name_col, Groups[i].extra_col, Groups[i].price_col}
            first == summary_item(parse_items(payload[Groups[n].key], Groups[n].extra_key).parsed)
        IN  IF c = Groups[n].name_col THEN first.name
            ELSE IF c = Groups[n].extra_col THEN first.extra.s
            ELSE first.price]

\* The grouped form: six parse_items calls, each followed by its error check.
grouped_form(payload) ==
    LET bad == FirstTrue([i \in 1..Len(Groups) |->
                            parse_items(payload[Groups[i].key], Groups[i].extra_key).err # "ok"])
    IN  IF bad # 0 THEN
            LET err == parse_items(payload[Groups[bad].key], Groups[bad].extra_key).err
            IN  IF err = "invalid_items"
                THEN Stop(Invalid(Groups[bad].key))
                ELSE Stop(Uncaught(err))
        ELSE Insert([row |-> summary_row(payload),
                     items |-> all_items(payload, Len(Groups))])

\* do_POST up to its call of insert_quote. body.kind is what json.loads gave.
do_POST(body) ==
    CASE body.kind = "badjson" -> Stop(Reply(400, <<"invalid", "json">>))
      [] body.kind = "badutf8" -> Stop(Uncaught("UnicodeDecodeError"))
      [] body.kind \in {"null", "number"} -> Stop(Uncaught("TypeError"))
      [] body.kind \in {"array", "string"} -> Stop(Uncaught("AttributeError"))
      [] body.kind = "grouped" -> grouped_form(body.g)
      [] OTHER -> flat_form(body.f)

\* ------------------------------------------------------------ the store

Workers == {"h1", "h2"}
NoWorker == "none"

\* created_at: what time.strftime returns when insert_quote starts.
Times == {"t1", "t2"}

NoBody == [kind |-> "none", f |-> <<>>, g |-> <<>>]
NoTxn == [lastrowid |-> 0, quotes |-> <<>>, items |-> <<>>]

\* INTEGER PRIMARY KEY AUTOINCREMENT: one more than the largest id the table
\* has held. Nothing deletes a row and a rollback undoes the sequence's
\* advance, so that is the number of committed rows plus those of this
\* transaction.
next_id(table, pending) == Len(table) + Len(pending) + 1

\* The price columns declared without NOT NULL.
NotNullFailsNever(price) == FALSE

\* sqlite3 binds a float nan as NULL, which a REAL NOT NULL column refuses.
NotNullFails(price) == price.k = "nan"

\* The largest committed id (SELECT MAX(id) FROM quotes) taken for it.
lastrowidCommitted(w) == Len(quotes)

\* cursor.lastrowid after the INSERT INTO quotes of this connection.
lastrowid(w) == txn[w].lastrowid

\* The rows executemany inserts into quote_items.
item_rows(quote_id, items) ==
    [i \in 1..Len(items) |->
        [id |-> next_id(quote_items, <<>>) + i - 1,
         quote_id |-> quote_id,
         section |-> items[i].section,
         name |-> items[i].name,
         extra |-> items[i].extra,
         price |-> items[i].price]]

\* list_quotes: the SELECT's ten columns, ORDER BY id DESC.
list_quotes ==
    [i \in 1..Len(quotes) |->
        LET row == quotes[Len(quotes) + 1 - i]
        IN  [c \in {"id", "created_at"} \cup Range(required_fields) |-> row[c]]]

\* list_options' distinct(column): one SELECT DISTINCT over quotes.
distinct(column) ==
    {quotes[i][column] : i \in 1..Len(quotes)} \ {<<>>}

TypeOK ==
    /\ lock \in Workers \cup {NoWorker}
    /\ pc \in [Workers -> {"idle", "insert", "items", "commit", "options", "done"}]

Init ==
    /\ quotes = <<>>
    /\ quote_items = <<>>
    /\ lock = NoWorker
    /\ pc = [w \in Workers |-> "idle"]
    /\ req = [w \in Workers |-> NoBody]
    /\ data = [w \in Workers |-> NoData]
    /\ txn = [w \in Workers |-> NoTxn]
    /\ result = [w \in Workers |-> NoResult]
    /\ options = [w \in Workers |-> <<>>]

\* The quotes a state holds or is about to hold.
InFlight == Cardinality({w \in Workers : pc[w] \in {"insert", "items", "commit"}})

\* POST /api/quotes with body, up to the call of insert_quote. Requests are
\* sent while the store has room for one more quote.
Post(w, body, room) ==
    /\ pc[w] = "idle"
    /\ Len(quotes) + InFlight < room
    /\ LET o == do_POST(body) IN
        /\ pc' = [pc EXCEPT ![w] = o.next]
        /\ req' = [req EXCEPT ![w] = body]
        /\ data' = [data EXCEPT ![w] = o.data]
        /\ result' = [result EXCEPT ![w] = o.result]
    /\ UNCHANGED <<quotes, quote_items, lock, txn, options>>

\* The with block leaves on an exception: the connection rolls back.
Rollback(w, e) ==
    /\ txn' = [txn EXCEPT ![w] = NoTxn]
    /\ lock' = NoWorker
    /\ result' = [result EXCEPT ![w] = Uncaught(e)]
    /\ pc' = [pc EXCEPT ![w] = "done"]
    /\ UNCHANGED <<quotes, quote_items, req, data, options>>

\* INSERT INTO quotes on a connection in autocommit mode: the row is committed
\* by the statement itself, before the items are inserted.
InsertQuoteAutocommit(w, clock) ==
    /\ pc[w] = "insert"
    /\ lock = NoWorker
    /\ IF \E c \in Range(price_fields) : NotNullFails(data[w].row[c])
       THEN Rollback(w, "IntegrityError")
       ELSE \E created_at \in clock :
            LET id == next_id(quotes, <<>>)
                row == [c \in Columns \cup {"id", "created_at"} |->
                           IF c = "id" THEN id
                           ELSE IF c = "created_at" THEN created_at
                           ELSE data[w].row[c]]
            IN  /\ quotes' = Append(quotes, row)
                /\ txn' = [txn EXCEPT ![w] =
                              [lastrowid |-> id, quotes |-> <<>>, items |-> <<>>]]
                /\ lock' = w
                /\ pc' = [pc EXCEPT ![w] = "items"]
                /\ UNCHANGED <<quote_items, req, data, result, options>>

\* insert_quote: INSERT INTO quotes. The statement opens the connection's
\* transaction and takes the write lock; it waits while another holds it.
\* clock: the readings time.strftime may have given.
InsertQuote(w, clock) ==
    /\ pc[w] = "insert"
    /\ lock = NoWorker
    /\ IF \E c \in Range(price_fields) : NotNullFails(data[w].row[c])
       THEN Rollback(w, "IntegrityError")
       ELSE \E created_at \in clock :
            LET id == next_id(quotes, <<>>)
                row == [c \in Columns \cup {"id", "created_at"} |->
                           IF c = "id" THEN id
                           ELSE IF c = "created_at" THEN created_at
                           ELSE data[w].row[c]]
            IN  /\ txn' = [txn EXCEPT ![w] =
                              [lastrowid |-> id, quotes |-> <<row>>, items |-> <<>>]]
                /\ lock' = w
                /\ pc' = [pc EXCEPT ![w] = "items"]
                /\ UNCHANGED <<quotes, quote_items, req, data, result, options>>

\* insert_quote: the wait for the write lock times out.
Busy(w) ==
    /\ pc[w] = "insert"
    /\ lock \notin {NoWorker, w}
    /\ pc' = [pc EXCEPT ![w] = "done"]
    /\ result' = [result EXCEPT ![w] = Uncaught("OperationalError")]
    /\ UNCHANGED <<quotes, quote_items, lock, req, data, txn, options>>

\* insert_quote: if items: executemany INSERT INTO quote_items.
InsertItems(w) ==
    /\ pc[w] = "items"
    /\ LET items == data[w].items IN
       IF items = <<>>
       THEN /\ pc' = [pc EXCEPT ![w] = "commit"]
            /\ UNCHANGED <<quotes, quote_items, lock, req, data, txn, result, options>>
       ELSE IF \E i \in 1..Len(items) : NotNullFails(items[i].price)
       THEN Rollback(w, "IntegrityError")
       ELSE /\ txn' = [txn EXCEPT ![w].items = item_rows(lastrowid(w), items)]
            /\ pc' = [pc EXCEPT ![w] = "commit"]
            /\ UNCHANGED <<quotes, quote_items, lock, req, data, result, options>>

\* insert_quote: conn.commit(), then do_POST's 201.
Commit(w) ==
    /\ pc[w] = "commit"
    /\ quotes' = quotes \o txn[w].quotes
    /\ quote_items' = quote_items \o txn[w].items
    /\ txn' = [txn EXCEPT ![w] = NoTxn]
    /\ lock' = NoWorker
    /\ result' = [result EXCEPT ![w] = Created]
    /\ pc' = [pc EXCEPT ![w] = "done"]
    /\ UNCHANGED <<req, data, options>>

\* GET /api/quotes.
GetQuotes(w) ==
    /\ pc[w] = "idle"
    /\ pc' = [pc EXCEPT ![w] = "done"]
    /\ result' = [result EXCEPT ![w] =
                     [status |-> 200, error |-> <<>>, exc |-> "", items |-> list_quotes]]
    /\ UNCHANGED <<quotes, quote_items, lock, req, data, txn, options>>

\* GET /api/options: list_options runs one SELECT per column.
GetOptions(w) ==
    /\ pc[w] = "idle"
    /\ pc' = [pc EXCEPT ![w] = "options"]
    /\ UNCHANGED <<quotes, quote_items, lock, req, data, txn, result, options>>

OptionsStep(w) ==
    /\ pc[w] = "options"
    /\ LET n == Len(options[w]) + 1 IN
        /\ options' = [options EXCEPT ![w] = Append(@, distinct(required_fields[n]))]
        /\ IF n = Len(required_fields)
           THEN /\ pc' = [pc EXCEPT ![w] = "done"]
                /\ result' = [result EXCEPT ![w] = Reply(200, <<>>)]
           ELSE UNCHANGED <<pc, result>>
    /\ UNCHANGED <<quotes, quote_items, lock, req, data, txn>>

\* The handler returns and the worker takes the next request.
Finish(w) ==
    /\ pc[w] = "done"
    /\ pc' = [pc EXCEPT ![w] = "idle"]
    /\ req' = [req EXCEPT ![w] = NoBody]
    /\ data' = [data EXCEPT ![w] = NoData]
    /\ result' = [result EXCEPT ![w] = NoResult]
    /\ options' = [options EXCEPT ![w] = <<>>]
    /\ UNCHANGED <<quotes, quote_items, lock, txn>>

\* ------------------------------------------------------------ request bodies

NoFields == [c \in Columns |-> Null]
NoGroups == [k \in GroupKeys |-> [t |-> "other", items |-> <<>>]]

Flat(f) == [kind |-> "flat", f |-> f, g |-> NoGroups]
Grouped(g) == [kind |-> "grouped", f |-> NoFields, g |-> g]
NonObject(kind) == [kind |-> kind, f |-> NoFields, g |-> NoGroups]

Dict(name, extra, price) == [t |-> "dict", name |-> name, extra |-> extra, price |-> price]
NotDict == [t |-> "other", name |-> Null, extra |-> Null, price |-> Null]
List(items) == [t |-> "list", items |-> items]
NotList == [t |-> "other", items |-> <<>>]

\* A valid flat body: a different letter in each text field, a different
\* number in each price field.
BaseFields ==
    [c \in Columns |->
        CASE c = "engine_category" -> Str(<<"e">>)
          [] c = "engine_model" -> Str(<<"m">>)
          [] c = "radiator_type" -> Str(<<"r">>)
          [] c = "generator_category" -> Str(<<"g">>)
          [] c = "generator_power" -> Str(<<"p">>)
          [] c = "control_system" -> Str(<<"c">>)
          [] c = "base_type" -> Str(<<"b">>)
          [] c = "unit_color" -> Str(<<"k">>)
          [] c = "price_engine_combo" -> Num(1)
          [] c = "price_generator_combo" -> Num(2)
          [] c = "price_radiator" -> Num(3)
          [] c = "price_control" -> Num(4)
          [] c = "price_base" -> Num(5)
          [] c = "price_color" -> Num(6)]

\* A valid item for group k: the values BaseFields has in the group's columns.
BaseItem(k) ==
    LET g == CHOOSE x \in Range(Groups) : x.key = k
    IN  Dict(BaseFields[g.name_col],
             IF g.extra_key THEN BaseFields[g.extra_col] ELSE Null,
             BaseFields[g.price_col])

\* A second valid item, told from the first by its name, extra and price.
OtherItem == Dict(Str(<<" ", "x">>), Str(<<"y", " ">>), Str(<<" ", "7">>))

BaseGroups == [k \in GroupKeys |-> List(<<BaseItem(k)>>)]

\* The values a field is tried with.
Values ==
    {Null, ListV, TrueV, NaNV, BigV, Num(0 - 1), Num(0),
     Str(<<>>), Str(<<" ">>), Str(<<" ", "z", " ">>), Str(<<"9", " ">>),
     Str(<<"-", "1">>), Str(<<"n", "a", "n">>)}

\* The values two fields of one body are tried with together.
PairValues == {NaNV, Num(0 - 1)}

FlatBodies ==
    {Flat([BaseFields EXCEPT ![c] = v]) : c \in Columns, v \in Values}
    \cup {Flat([BaseFields EXCEPT ![c] = v, ![d] = u]) :
            c \in Columns, d \in Columns, v \in PairValues, u \in PairValues}

\* The values a field of an item is tried with.
ItemValues ==
    {Null, NaNV, BigV, Num(0 - 1),
     Str(<<" ">>), Str(<<" ", "z", " ">>), Str(<<"9", " ">>)}

\* The items one item of a group is tried as.
Items ==
    {NotDict}
    \cup {Dict(v, Str(<<"y">>), Num(7)) : v \in ItemValues}
    \cup {Dict(Str(<<"x">>), v, Num(7)) : v \in ItemValues}
    \cup {Dict(Str(<<"x">>), Str(<<"y">>), v) : v \in ItemValues}

\* The values a group is tried with.
GroupValues(k) ==
    {NotList, List(<<>>)}
    \cup {List(<<it>>) : it \in Items}
    \cup {List(<<BaseItem(k), it>>) : it \in Items}
    \cup {List(<<OtherItem, BaseItem(k)>>)}

PairGroupValues(k) ==
    {NotList, List(<<BaseItem(k), Dict(Str(<<"x">>), Str(<<"y">>), NaNV)>>),
     List(<<OtherItem, BaseItem(k)>>)}

GroupedBodies ==
    UNION {{Grouped([BaseGroups EXCEPT ![k] = v]) : v \in GroupValues(k)} : k \in GroupKeys}
    \cup UNION {{Grouped([BaseGroups EXCEPT ![k[1]] = v, ![k[2]] = u]) :
                    v \in PairGroupValues(k[1]), u \in PairGroupValues(k[2])} :
                k \in GroupKeys \X GroupKeys}

NonObjects == {NonObject(k) : k \in {"badjson", "badutf8", "null", "number", "array", "string"}}

\* Every body the validation rules are tried on.
Bodies == FlatBodies \cup GroupedBodies \cup NonObjects

\* The bodies sent while handlers run side by side: valid and invalid ones of
\* both forms, and two that pass validation and fail inside insert_quote.
SharedBodies ==
    {Flat(BaseFields),
     Grouped([BaseGroups EXCEPT !["color_items"] = List(<<OtherItem, BaseItem("color_items")>>)]),
     Flat([BaseFields EXCEPT !["unit_color"] = Str(<<" ">>)]),
     Flat([BaseFields EXCEPT !["price_color"] = NaNV]),
     Grouped([BaseGroups EXCEPT !["engine_items"] = List(<<BaseItem("engine_items"), OtherItem>>)]),
     Grouped([BaseGroups EXCEPT !["color_items"] =
                 List(<<BaseItem("color_items"), Dict(Str(<<"x">>), Null, NaNV)>>)]),
     Grouped([BaseGroups EXCEPT !["color_items"] = NotList])}

\* ------------------------------------------------------------ specifications

MaxQuotes == 2
MaxRuleQuotes == 1

\* Handlers of several server processes on one data.db, interleaved at the
\* statements of insert_quote and list_options.
Next ==
    \E w \in Workers :
        \/ \E body \in SharedBodies : Post(w, body, MaxQuotes)
        \/ InsertQuote(w, Times)
        \/ Busy(w)
        \/ InsertItems(w)
        \/ Commit(w)
        \/ GetQuotes(w)
        \/ GetOptions(w)
        \/ OptionsStep(w)
        \/ Finish(w)

Spec == Init /\ [][Next]_vars

\* One server process (socketserver.TCPServer serves one request at a time),
\* sent every body of Bodies.
Handler == CHOOSE w \in Workers : TRUE

\* Its requests arrive within one second of the clock.
Now == CHOOSE t \in Times : TRUE

NextRules ==
    \/ \E body \in Bodies : Post(Handler, body, MaxRuleQuotes)
    \/ InsertQuote(Handler, {Now})
    \/ InsertItems(Handler)
    \/ Commit(Handler)
    \/ Finish(Handler)

SpecRules == Init /\ [][NextRules]_vars

\* ------------------------------------------------------------ the rules claimed

\* The free-text rule: a string that is non-empty once trimmed.
TextRule(v) == v.t = "str" /\ strip(v.s) # <<>>

\* The price rule: convertible to a float, and that float is >= 0.
PriceRule(v) == float(v).k = "fin" /\ float(v).x >= 0

ItemRule(g, it) ==
    /\ it.t = "dict"
    /\ TextRule(it.name)
    /\ g.extra_key => TextRule(it.extra)
    /\ PriceRule(it.price)

GroupRule(g, v) ==
    /\ v.t = "list"
    /\ v.items # <<>>
    /\ \A i \in 1..Len(v.items) : ItemRule(g, v.items[i])

\* Every row and field of a write submission passes its rule.
BodyRule(body) ==
    CASE body.kind = "flat" ->
            /\ \A c \in Range(required_fields) : TextRule(body.f[c])
            /\ \A c \in Range(price_fields) : PriceRule(body.f[c])
      [] body.kind = "grouped" ->
            \A n \in 1..Len(Groups) : GroupRule(Groups[n], body.g[Groups[n].key])
      [] OTHER -> FALSE

IsSubmission(body) == body.kind \in {"flat", "grouped"}

\* The fields of the flat form in their declared order.
flat_fields == required_fields \o price_fields

FieldRule(c, v) == IF c \in Range(price_fields) THEN PriceRule(v) ELSE TextRule(v)

Trimmed(s) == s # <<>> /\ s[1] \notin Whitespace /\ s[Len(s)] \notin Whitespace

\* The quote_items rows of quote id, without their generated id.
ItemsOf(id) ==
    LET rows == SelectSeq(quote_items, LAMBDA r : r.quote_id = id)
    IN  [i \in 1..Len(rows) |->
            [section |-> rows[i].section, name |-> rows[i].name,
             extra |-> rows[i].extra, price |-> rows[i].price]]

\* What the claims say a grouped submission's item rows are.
RECURSIVE ClaimedItems(_, _)
ClaimedItems(g, n) ==
    IF n = 0 THEN <<>>
    ELSE ClaimedItems(g, n - 1) \o
         [i \in 1..Len(g[Groups[n].key].items) |->
            LET it == g[Groups[n].key].items[i]
            IN  [section |-> Groups[n].section,
                 name |-> strip(it.name.s),
                 extra |-> IF Groups[n].section \in {"engine", "generator"}
                           THEN Text(strip(it.extra.s)) ELSE None,
                 price |-> float(it.price)]]

\* C4: every row of quotes holds eight non-empty trimmed texts and six prices
\* >= 0, and every row of quote_items a non-empty trimmed name and a price >= 0.
C4_StoredRowsValid ==
    /\ \A i \in 1..Len(quotes) :
        /\ \A c \in Range(required_fields) : Trimmed(quotes[i][c])
        /\ \A c \in Range(price_fields) : quotes[i][c].k = "fin" /\ quotes[i][c].x >= 0
    /\ \A i \in 1..Len(quote_items) :
        /\ Trimmed(quote_items[i].name)
        /\ quote_items[i].price.k = "fin" /\ quote_items[i].price.x >= 0

\* A grouped write whose stored name had to be trimmed is in the store.
C4_Witness ==
    /\ Len(quotes) > 0
    /\ \E i \in 1..Len(quote_items) : quote_items[i].name = <<"z">>

\* C5: a free-text value is accepted iff it is a string that is non-empty once
\* trimmed, and what is stored is the trimmed string: for the eight text
\* fields of the flat form, and for name and extra of every grouped item.
C5_FreeTextRule ==
    pc[Handler] = "done" /\ IsSubmission(req[Handler]) =>
        LET b == req[Handler]
            r == result[Handler]
            q == quotes[Len(quotes)]
        IN  /\ BodyRule(b) => r = Created
            /\ b.kind = "flat" =>
                /\ \A n \in 1..Len(required_fields) :
                    (\A m \in 1..(n - 1) : TextRule(b.f[required_fields[m]])) =>
                        (r = Invalid(required_fields[n]) <=> ~TextRule(b.f[required_fields[n]]))
                /\ r = Created =>
                    \A c \in Range(required_fields) : q[c] = strip(b.f[c].s)
            /\ b.kind = "grouped" =>
                /\ \A n \in 1..Len(Groups) :
                    LET g == Groups[n]
                        v == b.g[g.key]
                    IN  /\ r = Invalid(g.key) => ~GroupRule(g, v)
                        /\ (v.t = "list" /\ \A m \in 1..(n - 1) : GroupRule(Groups[m], b.g[Groups[m].key])) =>
                            \A i \in 1..Len(v.items) :
                                (v.items[i].t = "dict" /\ \A j \in 1..(i - 1) : ItemRule(g, v.items[j])) =>
                                    /\ ~TextRule(v.items[i].name) => r = Invalid(g.key)
                                    /\ g.extra_key /\ ~TextRule(v.items[i].extra) => r = Invalid(g.key)
                /\ r = Created =>
                    LET rows == ItemsOf(q.id)
                        want == ClaimedItems(b.g, Len(Groups))
                    IN  /\ Len(rows) = Len(want)
                        /\ \A i \in 1..Len(rows) :
                            rows[i].name = want[i].name /\ rows[i].extra = want[i].extra

\* A flat body whose unit_color needed trimming was accepted.
C5_Witness ==
    /\ pc[Handler] = "done"
    /\ req[Handler].kind = "flat"
    /\ req[Handler].f["unit_color"] = Str(<<" ", "z", " ">>)
    /\ result[Handler] = Created
    /\ quotes[Len(quotes)]["unit_color"] = <<"z">>

\* C6, as claimed: a price value is accepted iff it converts to a float >= 0,
\* and any other value (nan and unconvertible ones included) is rejected with
\* the field's validation error.
C6_PriceRuleClaimed ==
    pc[Handler] = "done" /\ req[Handler].kind = "flat" =>
        LET b == req[Handler]
            r == result[Handler]
        IN  (\A c \in Range(required_fields) : TextRule(b.f[c])) =>
                \A n \in 1..Len(price_fields) :
                    (\A m \in 1..(n - 1) : PriceRule(b.f[price_fields[m]])) =>
                        (r = Invalid(price_fields[n]) <=> ~PriceRule(b.f[price_fields[n]]))

\* C7, as claimed: a rejected flat submission reports invalid_<field> for the
\* first field, in declared order, whose value fails its rule; a rejected
\* grouped one reports the first group, in parse order, that fails its rule.
C7_FirstFailureClaimed ==
    pc[Handler] = "done" /\ IsSubmission(req[Handler]) /\ result[Handler].status = 400 =>
        LET b == req[Handler]
            r == result[Handler]
        IN  IF b.kind = "flat"
            THEN r = Invalid(flat_fields[FirstTrue([i \in 1..Len(flat_fields) |->
                                    ~FieldRule(flat_fields[i], b.f[flat_fields[i]])])])
            ELSE r = Invalid(Groups[FirstTrue([i \in 1..Len(Groups) |->
                                    ~GroupRule(Groups[i], b.g[Groups[i].key])])].key)

\* C8, as claimed: every body ends in a success or a structured error, never
\* in an uncaught exception.
C8_ErrorsAreValuesClaimed ==
    pc[Handler] = "done" => result[Handler].exc = "" /\ result[Handler].status \in {201, 400}

\* C9: an accepted grouped submission writes one quotes row holding the first
\* item of each group, and one quote_items row per submitted item, in group
\* order and submitted order, with extra kept for engine and generator only.
C9_SummaryAndItems ==
    pc[Handler] = "done" /\ req[Handler].kind = "grouped" /\ result[Handler] = Created =>
        LET b == req[Handler]
            q == quotes[Len(quotes)]
        IN  /\ Cardinality({i \in 1..Len(quotes) : quotes[i].id = q.id}) = 1
            /\ \A n \in 1..Len(Groups) :
                LET g == Groups[n]
                    first == b.g[g.key].items[1]
                IN  /\ q[g.name_col] = strip(first.name.s)
                    /\ g.extra_key => q[g.extra_col] = strip(first.extra.s)
                    /\ q[g.price_col] = float(first.price)
            /\ ItemsOf(q.id) = ClaimedItems(b.g, Len(Groups))

\* An accepted grouped body with two items in a group, the first not the base one.
C9_Witness ==
    /\ pc[Handler] = "done"
    /\ result[Handler] = Created
    /\ req[Handler].kind = "grouped"
    /\ req[Handler].g["generator_items"].items = <<OtherItem, BaseItem("generator_items")>>
    /\ Len(quote_items) > Len(Groups)

\* ------------------------------------------------------------ side by side

StoreUnchanged == quotes' = quotes /\ quote_items' = quote_items

\* C1: a write submission with an invalid row or field, at any position, ends
\* in failure and adds no row to quotes or quote_items; the store changes only
\* by the commit of a submission whose every row and field is valid.
C1_NoPartialWrite ==
    [][/\ \A w \in Workers :
            (pc[w] # "done" /\ pc'[w] = "done" /\ IsSubmission(req'[w]) /\ ~BodyRule(req'[w])) =>
                /\ result'[w].status # 201
                /\ StoreUnchanged
                /\ list_quotes' = list_quotes
       /\ ~StoreUnchanged =>
            \E w \in Workers : pc[w] = "commit" /\ pc'[w] = "done" /\ BodyRule(req[w])
      ]_vars

\* A grouped body whose last group holds a valid item and then an invalid one
\* has failed, with a quote of another request in the store.
C1_Witness ==
    \E w \in Workers :
        /\ pc[w] = "done"
        /\ req[w].kind = "grouped"
        /\ ~BodyRule(req[w])
        /\ Len(req[w].g["color_items"].items) > 1
        /\ result[w].status # 201
        /\ Len(quotes) > 0

\* The rows a commit of data d adds, as read back from the store after it.
IsWholeWrite(d) ==
    /\ Len(quotes') = Len(quotes) + 1
    /\ SubSeq(quotes', 1, Len(quotes)) = quotes
    /\ \A c \in Columns : quotes'[Len(quotes')][c] = d.row[c]
    /\ Len(quote_items') = Len(quote_items) + Len(d.items)
    /\ SubSeq(quote_items', 1, Len(quote_items)) = quote_items
    /\ \A i \in 1..Len(d.items) :
        LET r == quote_items'[Len(quote_items) + i]
        IN  /\ r.quote_id = quotes'[Len(quotes')].id
            /\ r.section = d.items[i].section
            /\ r.name = d.items[i].name
            /\ r.extra = d.items[i].extra
            /\ r.price = d.items[i].price

\* C2: the committed store, which is all a reader sees, changes only by one
\* whole write at a time (a quote and all its items together); a write that
\* fails leaves it as it was and nothing of the write behind; and what a
\* reader was given are rows of committed quotes.
C2_AtomicWrite ==
    [][/\ ~StoreUnchanged =>
            \E w \in Workers :
                /\ pc[w] = "commit"
                /\ result'[w] = Created
                /\ IsWholeWrite(data[w])
       /\ \A w \in Workers :
            (pc[w] \in {"insert", "items", "commit"} /\ pc'[w] = "done" /\ result'[w] # Created) =>
                /\ StoreUnchanged
                /\ txn'[w] = NoTxn
                /\ lock' # w
       /\ \A w \in Workers :
            /\ \A i \in 1..Len(result'[w].items) :
                \E j \in 1..Len(quotes') :
                    \A c \in DOMAIN result'[w].items[i] : result'[w].items[i][c] = quotes'[j][c]
            /\ \A n \in 1..Len(options'[w]) :
                options'[w][n] \subseteq {quotes'[j][required_fields[n]] : j \in 1..Len(quotes')}
      ]_vars

\* A reader has been given the committed quotes while another handler holds
\* an uncommitted quote with its items.
C2_Witness ==
    \E w \in Workers, v \in Workers :
        /\ pc[w] = "done"
        /\ result[w].status = 200
        /\ Len(result[w].items) = Len(quotes)
        /\ Len(quotes) > 0
        /\ pc[v] = "commit"
        /\ Len(txn[v].items) > Len(Groups)

\* C3, as claimed: list returns one record per accepted submission, newest
\* first, each carrying every validated column value, prices included.
C3_RoundTripClaimed ==
    \A w \in Workers :
        pc[w] = "done" /\ result[w].status = 200 =>
            \A i \in 1..Len(result[w].items) :
                LET r == result[w].items[i]
                IN  /\ \A c \in Range(required_fields) : r[c] = quotes[r.id][c]
                    /\ \A c \in Range(price_fields) :
                        c \in DOMAIN r /\ r[c] = quotes[r.id][c]

\* C10: every quote_items row refers to exactly one quotes row, the one its
\* own request inserted (its section's first item is that quote's summary),
\* and quote ids are unique.
C10_ItemsBelongToTheirQuote ==
    /\ \A i \in 1..Len(quotes), j \in 1..Len(quotes) : quotes[i].id = quotes[j].id => i = j
    /\ \A i \in 1..Len(quote_items) :
        Cardinality({j \in 1..Len(quotes) : quotes[j].id = quote_items[i].quote_id}) = 1
    /\ \A j \in 1..Len(quotes) :
        LET rows == ItemsOf(quotes[j].id)
        IN  rows # <<>> =>
                \A n \in 1..Len(Groups) :
                    LET own == SelectSeq(rows, LAMBDA r : r.section = Groups[n].section)
                    IN  /\ own # <<>>
                        /\ own[1].name = quotes[j][Groups[n].name_col]
                        /\ own[1].price = quotes[j][Groups[n].price_col]
    /\ \A w \in Workers : \A i \in 1..Len(txn[w].items) :
        /\ txn[w].quotes # <<>>
        /\ txn[w].items[i].quote_id = txn[w].quotes[1].id

\* Two grouped quotes with different summaries are committed, each with items.
C10_Witness ==
    /\ Len(quotes) = 2
    /\ quotes[1]["unit_color"] # quotes[2]["unit_color"]
    /\ ItemsOf(quotes[1].id) # <<>>
    /\ ItemsOf(quotes[2].id) # <<>>

====
